---- MODULE Spec2Model ----
(***************************************************************************)
(* Sophia: the retry wrapper, the text calls, the image fallback chain and *)
(* the JSON cleanup of services/geminiService.ts; the favorites list, its  *)
(* localStorage item, the search and the quote of the day of App.tsx.      *)
(*                                                                         *)
(* Text is modelled as a sequence of one-character strings, so that        *)
(* includes, startsWith, trim and replace are computed on characters.      *)
(***************************************************************************)
EXTENDS Integers, Sequences, FiniteSets, TLC

VARIABLES
    \* ---- geminiService.ts ----
    variant,        \* which of the two geminiService.ts files is loaded
    apiKey,         \* process.env.API_KEY is set
    pexelsKey,      \* process.env.PEXELS_API_KEY is set
    aiInstance,     \* the singleton client exists
    pc,             \* position of the generateQuoteImage call in flight
    operation,      \* the operation handed to withRetry (how its calls end)
    retries,        \* withRetry's parameter retries
    delay,          \* withRetry's parameter delay
    attempts,       \* how each call of the operation ended, in order
    sleeps,         \* the delays slept, in order
    rpc,            \* position inside withRetry
    settled,        \* how withRetry's promise settled
    searchKeywords, \* generateQuoteImage's local searchKeywords
    aiBytes,        \* image bytes the AI call returned, or NoBytes
    pexelsImage,    \* what fetchPexelsImage returned, or NoUrl
    trace,          \* the image sources consulted, in order
    result,         \* how generateQuoteImage's promise settled
    fn,             \* the exported function in flight
    parse,          \* how the JSON.parse of the last response ended
    textResult,     \* how the promise of the text function in flight settled
    pexelsResp,     \* what the Pexels search answered, if it was asked
    pexelsSettled,  \* how fetchPexelsImage's promise settled
    \* ---- App.tsx favorites ----
    favorites,      \* the favorites state
    favBefore,      \* favorites before the last toggleFavorite
    toggled,        \* the quote of the last toggleFavorite
    favBefore2,     \* favorites before the toggleFavorite before that
    toggled2,       \* the quote of the toggleFavorite before that
    \* ---- cleanJsonString ----
    payload,        \* the JSON payload the response text was built from
    fence,          \* how the payload was wrapped: "json", "plain" or "none"
    str,            \* the response text handed to cleanJsonString
    cleaned,        \* what cleanJsonString returned
    \* ---- App.tsx search and quote of the day ----
    searchTerm,     \* the searchTerm state
    quotes,         \* the quotes state
    isLoading,      \* the isLoading state
    errorText,      \* the error state (NoText: null)
    dailyQuote,     \* the dailyQuote state (NoCard: null)
    isDailyQuoteLoading, \* the isDailyQuoteLoading state
    currentView,    \* the currentView state
    searchPc,       \* position of the handleSearch call in flight
    fetchedQuotes,  \* handleSearch's local fetchedQuotes
    completed,      \* the quotesWithImagesPromises settled, in settling order
    dailyPc,        \* position of the fetchDailyQuote effect
    caught,         \* the error the last catch handed to handleApiError
    inFlight,       \* how many handleSearch calls have not returned
    \* ---- App.tsx favorites and localStorage ----
    storage,        \* localStorage's item 'sophia_favorites' (NoItem: null)
    stored0,        \* that item when the page was loaded
    effects,        \* the effects of the last commit still to run, in order
    queued,         \* the setFavorites calls the next render applies, in order
    \* ---- components/QuoteCard.tsx ----
    cardMounted,    \* the card is on the page
    imageUrl,       \* quote.imageUrl of the last render
    effectDue,      \* the image effect of the last commit has still to run
    runs,           \* the runs of the image effect: url, isMounted, stage
    imgSrc,         \* '' until an image is set
    isImageReady,
    isDownloading,
    downloaded      \* how the last download ended

textVars == <<fn, parse, textResult, pexelsResp, pexelsSettled>>
serviceVars == <<variant, apiKey, pexelsKey, aiInstance, pc, operation, retries,
                 delay, attempts, sleeps, rpc, settled, searchKeywords, aiBytes,
                 pexelsImage, trace, result, textVars>>
favVars == <<favorites, favBefore, toggled, favBefore2, toggled2>>
jsonVars == <<payload, fence, str, cleaned>>
appVars == <<searchTerm, quotes, isLoading, errorText, dailyQuote, isDailyQuoteLoading,
             currentView, searchPc, fetchedQuotes, completed, dailyPc, caught,
             inFlight>>
storeVars == <<storage, stored0, effects, queued>>
cardVars == <<cardMounted, imageUrl, effectDue, runs, imgSrc, isImageReady,
              isDownloading, downloaded>>
uiVars == <<appVars, storeVars, cardVars>>
vars == <<serviceVars, favVars, jsonVars, uiVars>>

Undefined == "undefined"

\* ------------------------------------------------------------------ bounds
\* The most failures an operation handed to withRetry makes before its
\* calls end the other way.
MaxFailures == 5

\* ------------------------------------------------------------------ text
Min(a, b) == IF a < b THEN a ELSE b

\* String.prototype.includes
Includes(s, sub) ==
    \E i \in 1..(Len(s) - Len(sub) + 1) : SubSeq(s, i, i + Len(sub) - 1) = sub

\* String.prototype.startsWith
StartsWith(s, p) == Len(s) >= Len(p) /\ SubSeq(s, 1, Len(p)) = p

EndsWith(s, p) == Len(s) >= Len(p) /\ SubSeq(s, Len(s) - Len(p) + 1, Len(s)) = p

\* The characters String.prototype.trim strips, of those the model writes.
WsChars == {" ", "\n"}

RECURSIVE TrimStart(_)
TrimStart(s) ==
    IF Len(s) > 0 /\ s[1] \in WsChars THEN TrimStart(Tail(s)) ELSE s

RECURSIVE TrimEnd(_)
TrimEnd(s) ==
    IF Len(s) > 0 /\ s[Len(s)] \in WsChars THEN TrimEnd(SubSeq(s, 1, Len(s) - 1)) ELSE s

\* String.prototype.trim
Trim(s) == TrimEnd(TrimStart(s))

S_overloaded == <<"o", "v", "e", "r", "l", "o", "a", "d", "e", "d">>
S_503 == <<"5", "0", "3">>
S_UNAVAILABLE == <<"U", "N", "A", "V", "A", "I", "L", "A", "B", "L", "E">>
S_429 == <<"4", "2", "9">>
S_quota == <<"q", "u", "o", "t", "a">>
M_overloaded == <<"T", "h", "e", " ", "m", "o", "d", "e", "l", " ", "i", "s", " ",
                  "o", "v", "e", "r", "l", "o", "a", "d", "e", "d">>
M_503 == <<"H", "T", "T", "P", " ", "5", "0", "3">>
M_service == <<"S", "e", "r", "v", "i", "c", "e", " ", "e", "r", "r", "o", "r">>
M_later == <<"t", "r", "y", " ", "l", "a", "t", "e", "r">>
M_quota == <<"4", "2", "9", " ", "q", "u", "o", "t", "a", " ", "e", "x", "c", "e",
             "e", "d", "e", "d">>
M_billing == <<"4", "0", "0", " ", "b", "i", "l", "l", "i", "n", "g">>
M_keymissing == <<"A", "P", "I", "_", "K", "E", "Y", "_", "M", "I", "S", "S", "I",
                  "N", "G">>

\* ---------------------------------------------------------------- errors
\* The errors an API call can reject with.  hasMessage is FALSE for an error
\* whose message is undefined; code 0 stands for an error with no code.
\* The first four carry exactly one of withRetry's overload marks.
ErrKinds ==
    [ overloadedMsg |-> [hasMessage |-> TRUE,  message |-> M_overloaded, code |-> 0,   status |-> Undefined],
      msg503        |-> [hasMessage |-> TRUE,  message |-> M_503,        code |-> 0,   status |-> Undefined],
      code503       |-> [hasMessage |-> TRUE,  message |-> M_service,    code |-> 503, status |-> Undefined],
      unavailable   |-> [hasMessage |-> TRUE,  message |-> M_later,      code |-> 0,   status |-> "UNAVAILABLE"],
      quota429      |-> [hasMessage |-> TRUE,  message |-> M_quota,      code |-> 429, status |-> "RESOURCE_EXHAUSTED"],
      billing400    |-> [hasMessage |-> TRUE,  message |-> M_billing,    code |-> 400, status |-> "INVALID_ARGUMENT"],
      noMessage     |-> [hasMessage |-> FALSE, message |-> <<>>,         code |-> 500, status |-> "INTERNAL"] ]

ErrKindNames == DOMAIN ErrKinds

\* The error object the n-th call of an operation throws: a fresh object each
\* time, told apart by attempt.
Thrown(kind, n) ==
    [hasMessage |-> ErrKinds[kind].hasMessage, message |-> ErrKinds[kind].message,
     code |-> ErrKinds[kind].code, status |-> ErrKinds[kind].status, attempt |-> n]

\* new Error(message), thrown by the service itself
NewError(message) ==
    [hasMessage |-> TRUE, message |-> message, code |-> 0, status |-> Undefined,
     attempt |-> 0]

NoError == [hasMessage |-> FALSE, message |-> <<>>, code |-> 0, status |-> Undefined,
            attempt |-> 0]

Ok == [ok |-> TRUE, error |-> NoError]
Failed(error) == [ok |-> FALSE, error |-> error]

\* An operation: its first fails calls throw an error of kind kind, every
\* later call ends as final says ("ok", or the kind of error it throws).
Operations ==
    { op \in [fails : 0..MaxFailures, kind : ErrKindNames,
              final : {"ok"} \cup ErrKindNames] :
        op.fails = 0 => op.kind = "msg503" }

NoOperation == [fails |-> 0, kind |-> "msg503", final |-> "ok"]

\* await operation(), for the n-th call
Call(op, n) ==
    IF n <= op.fails THEN Failed(Thrown(op.kind, n))
    ELSE IF op.final = "ok" THEN Ok
    ELSE Failed(Thrown(op.final, n))

\* -------------------------------------------------------------- withRetry
DefaultRetries == 3
DefaultDelay == 2000

\* isOverloaded with every error taken for an overload
isOverloaded_AnyError(error) == TRUE

\* isOverloaded with HTTP 429 added to the overload marks
isOverloaded_Or429(error) ==
    \/ error.hasMessage /\ Includes(error.message, S_overloaded)
    \/ error.hasMessage /\ Includes(error.message, S_503)
    \/ error.hasMessage /\ Includes(error.message, S_429)
    \/ error.code = 503
    \/ error.status = "UNAVAILABLE"

isOverloaded(error) ==
    \/ error.hasMessage /\ Includes(error.message, S_overloaded)
    \/ error.hasMessage /\ Includes(error.message, S_503)
    \/ error.code = 503
    \/ error.status = "UNAVAILABLE"

\* ShouldRetry with the bound off by one (retries >= 0)
ShouldRetry_OffByOne(error, r) == isOverloaded(error) /\ r >= 0

\* if (isOverloaded && retries > 0)
ShouldRetry(error, r) == isOverloaded(error) /\ r > 0

\* withRetry(operation, retries - 1, delay * 2)
NextDelay(d) == d * 2

\* Rethrown keeping the error of the first failed call
Rethrown_First(error, earlier) ==
    IF earlier = <<>> THEN error ELSE earlier[1].error

\* throw error: the error caught from the call that has just failed
Rethrown(error, earlier) == error

Pending == [kind |-> "pending", error |-> NoError]
Resolved == [kind |-> "resolved", error |-> NoError]
Rejected(error) == [kind |-> "rejected", error |-> error]

\* A caller enters withRetry(operation) with the default retries and delay.
withRetry_enter(op) ==
    /\ operation' = op
    /\ retries' = DefaultRetries
    /\ delay' = DefaultDelay
    /\ attempts' = <<>>
    /\ sleeps' = <<>>
    /\ rpc' = "call"
    /\ settled' = Pending

\* The source an API call of the withRetry in flight consults.
Source == IF pc = "image" THEN "ai_image" ELSE "ai_text"

Visit(tr, src) == IF Len(tr) > 0 /\ tr[Len(tr)] = src THEN tr ELSE Append(tr, src)

\* try { return await operation() } catch (error) { ... }
withRetry_call ==
    /\ rpc = "call"
    /\ LET n == Len(attempts) + 1
           out == Call(operation, n)
       IN /\ attempts' = Append(attempts, out)
          /\ trace' = Visit(trace, Source)
          /\ IF out.ok
             THEN rpc' = "resolved" /\ settled' = Resolved
             ELSE IF ShouldRetry(out.error, retries)
             THEN rpc' = "sleep" /\ settled' = settled
             ELSE /\ rpc' = "rejected"
                  /\ settled' = Rejected(Rethrown(out.error, attempts))
    /\ UNCHANGED <<variant, apiKey, pexelsKey, aiInstance, pc, operation, retries,
                   delay, sleeps, searchKeywords, aiBytes, pexelsImage, result,
                   textVars>>
    /\ UNCHANGED <<favVars, jsonVars, uiVars>>

\* await sleep(delay); return withRetry(operation, retries - 1, delay * 2)
withRetry_sleep ==
    /\ rpc = "sleep"
    /\ sleeps' = Append(sleeps, delay)
    /\ retries' = retries - 1
    /\ delay' = NextDelay(delay)
    /\ rpc' = "call"
    /\ UNCHANGED <<variant, apiKey, pexelsKey, aiInstance, pc, operation, attempts,
                   settled, searchKeywords, aiBytes, pexelsImage, trace, result,
                   textVars>>
    /\ UNCHANGED <<favVars, jsonVars, uiVars>>


\* ------------------------------------------------- generateQuoteImage
envVars == <<variant, apiKey, pexelsKey>>
retryVars == <<operation, retries, delay, attempts, sleeps, rpc, settled>>

\* No withRetry is in flight.
withRetry_none ==
    /\ operation' = NoOperation
    /\ retries' = DefaultRetries
    /\ delay' = DefaultDelay
    /\ attempts' = <<>>
    /\ sleeps' = <<>>
    /\ rpc' = "idle"
    /\ settled' = Pending

\* URLs are pairs <<origin, rest>>; NoUrl is null, undefined or "".
NoUrl == <<>>
NoBytes == ""

FALLBACK_IMAGES ==
    << <<"https://images.unsplash.com/", "photo-1485846234645-a62644f84728">>,
       <<"https://images.unsplash.com/", "photo-1519681393784-d120267933ba">>,
       <<"https://images.unsplash.com/", "photo-1500462918059-b1a0cb512f1d">>,
       <<"https://images.unsplash.com/", "photo-1478760329108-5c3ed9d495a0">>,
       <<"https://images.unsplash.com/", "photo-1550684848-fac1c5b4e853">>,
       <<"https://images.unsplash.com/", "photo-1534447677768-be436bb09401">> >>

\* Math.floor(Math.random() * FALLBACK_IMAGES.length), counted from 1
FallbackIndexes == 1..Len(FALLBACK_IMAGES)

getRandomFallbackImage(i) == FALLBACK_IMAGES[i]

\* the template literal data:image/jpeg;base64,${base64ImageBytes}
DataUri(bytes) == <<"data:image/jpeg;base64,", bytes>>

PendingResult == [kind |-> "pending", value |-> NoUrl, error |-> NoError]
ResolvedWith(url) == [kind |-> "resolved", value |-> url, error |-> NoError]
RejectedWith(error) == [kind |-> "rejected", value |-> NoUrl, error |-> error]

\* getAiClient throws API_KEY_MISSING
getAiClientThrows(inst, key) == ~inst /\ ~key

\* What the Pexels search can answer: a network failure, a status that is not
\* OK, a body that is not JSON, no photos, a first photo without src, a first
\* photo with its large2x URL, or a first photo whose src has none.
PexelsResponses ==
    { [kind |-> k, url |-> NoUrl] :
        k \in {"network_error", "not_ok", "bad_json", "no_photos", "photo_no_src"} }
    \cup { [kind |-> "photo", url |-> u] :
             u \in { <<"https://images.pexels.com/", "photos/1/large2x">>,
                     <<"https://images.pexels.com/", "photos/2/large2x">>,
                     NoUrl } }

\* No request was sent to Pexels.
NoResp == [kind |-> "none", url |-> NoUrl]

M_pexels == <<"P", "e", "x", "e", "l", "s", " ", "A", "P", "I", " ", "E",
            "r", "r", "o", "r", ":", " ", "5", "0", "0">>

\* A statement of fetchPexelsImage's try block throws: fetch rejects, the
\* status is not OK, response.json() rejects, or photos[0].src is undefined.
PexelsTryThrows(resp) ==
    resp.kind \in {"network_error", "not_ok", "bad_json", "photo_no_src"}

\* if (!pexelsKey) return null, before any fetch
PexelsRequested(hasKey) == hasKey

\* fetchPexelsImage without its catch
fetchPexelsImage_NoCatch(hasKey, resp) ==
    IF ~PexelsRequested(hasKey) THEN ResolvedWith(NoUrl)
    ELSE IF PexelsTryThrows(resp) THEN RejectedWith(NewError(M_pexels))
    ELSE IF resp.kind = "photo" THEN ResolvedWith(resp.url)
    ELSE ResolvedWith(NoUrl)

\* How fetchPexelsImage's promise settles, given whether the key is set and
\* what the search answers.
fetchPexelsImage(hasKey, resp) ==
    IF ~PexelsRequested(hasKey) THEN ResolvedWith(NoUrl)
    ELSE IF PexelsTryThrows(resp) THEN ResolvedWith(NoUrl)
    ELSE IF resp.kind = "photo" THEN ResolvedWith(resp.url)
    ELSE ResolvedWith(NoUrl)

\* ImageOrFallback ignoring the Pexels URL
ImageOrFallback_Static(img, i) == getRandomFallbackImage(i)

\* if (pexelsImage) return pexelsImage; ... return getRandomFallbackImage()
ImageOrFallback(img, i) == IF img # NoUrl THEN img ELSE getRandomFallbackImage(i)

\* The text of the prompt-analysis response: not JSON, the JSON null, or an
\* object with search_keywords ("" when the key is absent or empty).
AnalysisResponses ==
    { [kind |-> "unparsable", keywords |-> ""], [kind |-> "null_json", keywords |-> ""],
      [kind |-> "object", keywords |-> ""], [kind |-> "object", keywords |-> "stars night"] }

\* AnalysisThrows with no response taken for a failure
AnalysisThrows_Never(resp) == FALSE

\* JSON.parse(...) or analysisData.visual_prompt throws
AnalysisThrows(resp) == resp.kind # "object"

\* JSON.parse(cleanJsonString(analysisResponse.text)) throws a SyntaxError
ParseOf(resp) == IF resp.kind = "unparsable" THEN "threw" ELSE "ok"

\* No exported function has been called since the module was last idle.
Returned == pc = "idle"

\* generateQuoteImage is entered by a caller, or by getQuoteOfTheDay.
generateQuoteImage_entered ==
    /\ Returned \/ pc = "daily_image"
    /\ parse' = "none"
    /\ pexelsResp' = NoResp
    /\ pexelsSettled' = PendingResult
    /\ IF pc = "daily_image"
       THEN UNCHANGED <<fn, textResult>>
       ELSE fn' = "image" /\ textResult' = Pending

\* analysisData.search_keywords || "nature abstract"
KeywordsOf(resp) == IF resp.keywords = "" THEN "nature abstract" ELSE resp.keywords

\* The image bytes of the image response (NoBytes: no part carries any).
ImageResponses == {NoBytes, "AAAA", "BBBB"}

\* ImageReturns with the test inverted
ImageReturns_Inverted(bytes) == bytes = NoBytes

\* if (base64ImageBytes) return the data URI; else throw
ImageReturns(bytes) == bytes # NoBytes

\* generateQuoteImage (Pexels file): getAiClient() and the first withRetry
generateQuoteImage_begin ==
    /\ variant = "pexels"
    /\ generateQuoteImage_entered
    /\ aiBytes' = NoBytes
    /\ pexelsImage' = NoUrl
    /\ trace' = <<>>
    /\ IF getAiClientThrows(aiInstance, apiKey)
       THEN /\ result' = RejectedWith(NewError(M_keymissing))
            /\ pc' = "done"
            /\ withRetry_none
            /\ UNCHANGED <<aiInstance, searchKeywords>>
       ELSE /\ aiInstance' = TRUE
            /\ searchKeywords' = "abstract nature"
            /\ result' = PendingResult
            /\ pc' = "analysis"
            /\ \E op \in Operations : withRetry_enter(op)
    /\ UNCHANGED envVars
    /\ UNCHANGED <<favVars, jsonVars, uiVars>>

\* after the prompt analysis settled: parse it, then the second withRetry
generateQuoteImage_analysis ==
    /\ variant = "pexels"
    /\ pc = "analysis"
    /\ settled.kind # "pending"
    /\ IF settled.kind = "rejected"
       THEN pc' = "catch" /\ UNCHANGED <<searchKeywords, retryVars, parse>>
       ELSE \E resp \in AnalysisResponses :
              /\ parse' = ParseOf(resp)
              /\ IF AnalysisThrows(resp)
                 THEN pc' = "catch" /\ UNCHANGED <<searchKeywords, retryVars>>
                 ELSE /\ searchKeywords' = KeywordsOf(resp)
                      /\ pc' = "image"
                      /\ \E op \in Operations : withRetry_enter(op)
    /\ UNCHANGED <<envVars, aiInstance, aiBytes, pexelsImage, trace, result>>
    /\ UNCHANGED <<fn, textResult, pexelsResp, pexelsSettled>>
    /\ UNCHANGED <<favVars, jsonVars, uiVars>>

\* after the image call settled: return the data URI or throw to the catch
generateQuoteImage_image ==
    /\ variant = "pexels"
    /\ pc = "image"
    /\ settled.kind # "pending"
    /\ IF settled.kind = "rejected"
       THEN pc' = "catch" /\ UNCHANGED <<aiBytes, result>>
       ELSE \E bytes \in ImageResponses :
              /\ aiBytes' = bytes
              /\ IF ImageReturns(bytes)
                 THEN result' = ResolvedWith(DataUri(bytes)) /\ pc' = "done"
                 ELSE pc' = "catch" /\ UNCHANGED result
    /\ UNCHANGED <<envVars, aiInstance, retryVars, searchKeywords, pexelsImage, trace>>
    /\ UNCHANGED textVars
    /\ UNCHANGED <<favVars, jsonVars, uiVars>>

\* catch (error): fetchPexelsImage(searchKeywords), then the static list
generateQuoteImage_catch ==
    /\ variant = "pexels"
    /\ pc = "catch"
    /\ \E resp \in PexelsResponses, i \in FallbackIndexes :
         LET p == fetchPexelsImage(pexelsKey, resp)
             img == p.value
             asked == IF PexelsRequested(pexelsKey) THEN Append(trace, "pexels") ELSE trace
         IN /\ pexelsResp' = IF PexelsRequested(pexelsKey) THEN resp ELSE NoResp
            /\ pexelsSettled' = p
            /\ pexelsImage' = img
            /\ IF p.kind = "rejected"
               THEN result' = RejectedWith(p.error) /\ trace' = asked
               ELSE /\ result' = ResolvedWith(ImageOrFallback(img, i))
                    /\ trace' = IF ImageOrFallback(img, i) = img
                                THEN asked ELSE Append(asked, "static")
    /\ pc' = "done"
    /\ UNCHANGED <<envVars, aiInstance, retryVars, searchKeywords, aiBytes>>
    /\ UNCHANGED <<fn, parse, textResult>>
    /\ UNCHANGED <<favVars, jsonVars, uiVars>>

\* The text of the description response of the Imagen file: undefined, empty,
\* blank, or a prompt.
DescriptionTexts == { <<>>, <<" ">>, <<"s", "e", "a">>, <<" ", "s", "e", "a", "\n">> }

\* const visualPrompt = descriptionResponse.text?.trim(); if (!visualPrompt)
NoVisualPrompt(text) == Trim(text) = <<>>

\* generateQuoteImage (Imagen file): getAiClient() inside the try
generateQuoteImageImagen_begin ==
    /\ variant = "imagen"
    /\ generateQuoteImage_entered
    /\ aiBytes' = NoBytes
    /\ pexelsImage' = NoUrl
    /\ IF getAiClientThrows(aiInstance, apiKey)
       THEN /\ \E i \in FallbackIndexes : result' = ResolvedWith(getRandomFallbackImage(i))
            /\ trace' = <<"static">>
            /\ pc' = "done"
            /\ withRetry_none
            /\ UNCHANGED aiInstance
       ELSE /\ aiInstance' = TRUE
            /\ result' = PendingResult
            /\ trace' = <<>>
            /\ pc' = "analysis"
            /\ \E op \in Operations : withRetry_enter(op)
    /\ UNCHANGED <<envVars, searchKeywords>>
    /\ UNCHANGED <<favVars, jsonVars, uiVars>>

\* after the description settled: the early return, or the second withRetry
generateQuoteImageImagen_description ==
    /\ variant = "imagen"
    /\ pc = "analysis"
    /\ settled.kind # "pending"
    /\ IF settled.kind = "rejected"
       THEN /\ \E i \in FallbackIndexes : result' = ResolvedWith(getRandomFallbackImage(i))
            /\ trace' = Append(trace, "static")
            /\ pc' = "done"
            /\ UNCHANGED retryVars
       ELSE \E text \in DescriptionTexts :
              IF NoVisualPrompt(text)
              THEN /\ \E i \in FallbackIndexes :
                        result' = ResolvedWith(getRandomFallbackImage(i))
                   /\ trace' = Append(trace, "static")
                   /\ pc' = "done"
                   /\ UNCHANGED retryVars
              ELSE /\ pc' = "image"
                   /\ \E op \in Operations : withRetry_enter(op)
                   /\ UNCHANGED <<result, trace>>
    /\ UNCHANGED <<envVars, aiInstance, searchKeywords, aiBytes, pexelsImage>>
    /\ UNCHANGED textVars
    /\ UNCHANGED <<favVars, jsonVars, uiVars>>

\* after generateImages settled: the data URI, or the catch's static image
generateQuoteImageImagen_image ==
    /\ variant = "imagen"
    /\ pc = "image"
    /\ settled.kind # "pending"
    /\ IF settled.kind = "rejected"
       THEN /\ \E i \in FallbackIndexes : result' = ResolvedWith(getRandomFallbackImage(i))
            /\ trace' = Append(trace, "static")
            /\ UNCHANGED aiBytes
       ELSE \E bytes \in ImageResponses :
              /\ aiBytes' = bytes
              /\ IF ImageReturns(bytes)
                 THEN result' = ResolvedWith(DataUri(bytes)) /\ UNCHANGED trace
                 ELSE /\ \E i \in FallbackIndexes :
                           result' = ResolvedWith(getRandomFallbackImage(i))
                      /\ trace' = Append(trace, "static")
    /\ pc' = "done"
    /\ UNCHANGED <<envVars, aiInstance, retryVars, searchKeywords, pexelsImage>>
    /\ UNCHANGED textVars
    /\ UNCHANGED <<favVars, jsonVars, uiVars>>

\* ------------------------------------------------------------ favorites
\* How many quote texts, and how many records carry the same text.
NumTexts == 3
NumIds == 2

\* A Quote: its text (quote) and id; id stands for the rest of the record.
Quotes == [id : 1..NumIds, quote : 1..NumTexts]

NoQuote == [id |-> 0, quote |-> 0]

\* toggleFavorite adding at the end of the list
toggleFavorite_Append(prev, quote) ==
    LET exists == \E i \in 1..Len(prev) : prev[i].quote = quote.quote
    IN IF exists
       THEN SelectSeq(prev, LAMBDA fav : fav.quote # quote.quote)
       ELSE prev \o <<quote>>

\* toggleFavorite comparing ids instead of texts
toggleFavorite_ById(prev, quote) ==
    LET exists == \E i \in 1..Len(prev) : prev[i].id = quote.id
    IN IF exists
       THEN SelectSeq(prev, LAMBDA fav : fav.id # quote.id)
       ELSE <<quote>> \o prev

\* The updater toggleFavorite hands to setFavorites.
toggleFavorite(prev, quote) ==
    LET exists == \E i \in 1..Len(prev) : prev[i].quote = quote.quote
    IN IF exists
       THEN SelectSeq(prev, LAMBDA fav : fav.quote # quote.quote)
       ELSE <<quote>> \o prev

isQuoteFavorite(favs, quoteText) ==
    \E i \in 1..Len(favs) : favs[i].quote = quoteText

\* A card's heart button: onToggleFavorite(quote)
onToggleFavorite ==
    /\ \E quote \in Quotes :
         /\ favorites' = toggleFavorite(favorites, quote)
         /\ toggled' = quote
    /\ favBefore' = favorites
    /\ favBefore2' = favBefore
    /\ toggled2' = toggled
    /\ UNCHANGED <<serviceVars, jsonVars, uiVars>>

\* -------------------------------------------------------- cleanJsonString
\* The backquote character, written "~": a TLA+ string cannot hold a backquote.
Backquote == "~"

\* The closing fence, and the two opening fences cleanJsonString looks for.
Fence3 == <<Backquote, Backquote, Backquote>>
FenceJson == Fence3 \o <<"j", "s", "o", "n">>

\* String.prototype.replace(/^p/, "")
ReplaceAtStart(s, p) ==
    IF StartsWith(s, p) THEN SubSeq(s, Len(p) + 1, Len(s)) ELSE s

\* String.prototype.replace(/p$/, "")
ReplaceAtEnd(s, p) ==
    IF EndsWith(s, p) THEN SubSeq(s, 1, Len(s) - Len(p)) ELSE s

\* cleanJsonString testing for the plain fence first
cleanJsonString_PlainFirst(s) ==
    IF s = <<>> THEN <<"{", "}">>
    ELSE LET t == Trim(s)
             u == IF StartsWith(t, Fence3)
                  THEN ReplaceAtEnd(ReplaceAtStart(t, Fence3), Fence3)
                  ELSE IF StartsWith(t, FenceJson)
                  THEN ReplaceAtEnd(ReplaceAtStart(t, FenceJson), Fence3)
                  ELSE t
         IN Trim(u)

cleanJsonString(s) ==
    IF s = <<>> THEN <<"{", "}">>
    ELSE LET t == Trim(s)
             u == IF StartsWith(t, FenceJson)
                  THEN ReplaceAtEnd(ReplaceAtStart(t, FenceJson), Fence3)
                  ELSE IF StartsWith(t, Fence3)
                  THEN ReplaceAtEnd(ReplaceAtStart(t, Fence3), Fence3)
                  ELSE t
         IN Trim(u)

\* JSON.parse, on the JSON made of the number characters "1", strings without
\* escapes, and arrays of at most one element.  A value is <<"num", digits>>,
\* <<"str", characters>> or <<"arr", elements>>; Invalid is a SyntaxError.
Invalid == <<"invalid">>

NoParse == [ok |-> FALSE, val |-> Invalid, next |-> 0]

RECURSIVE SkipWs(_, _)
SkipWs(s, i) ==
    IF i <= Len(s) /\ s[i] \in WsChars THEN SkipWs(s, i + 1) ELSE i

RECURSIVE SkipDigits(_, _)
SkipDigits(s, i) ==
    IF i <= Len(s) /\ s[i] = "1" THEN SkipDigits(s, i + 1) ELSE i

RECURSIVE FindQuote(_, _)
FindQuote(s, i) ==
    IF i > Len(s) THEN 0
    ELSE IF s[i] = "\"" THEN i
    ELSE IF s[i] = "\n" THEN 0
    ELSE FindQuote(s, i + 1)

RECURSIVE ParseValue(_, _)
ParseValue(s, i) ==
    IF i > Len(s) THEN NoParse
    ELSE IF s[i] = "1"
    THEN LET j == SkipDigits(s, i)
         IN [ok |-> TRUE, val |-> <<"num", SubSeq(s, i, j - 1)>>, next |-> j]
    ELSE IF s[i] = "\""
    THEN LET k == FindQuote(s, i + 1)
         IN IF k = 0 THEN NoParse
            ELSE [ok |-> TRUE, val |-> <<"str", SubSeq(s, i + 1, k - 1)>>, next |-> k + 1]
    ELSE IF s[i] = "["
    THEN LET j == SkipWs(s, i + 1)
         IN IF j <= Len(s) /\ s[j] = "]"
            THEN [ok |-> TRUE, val |-> <<"arr", <<>> >>, next |-> j + 1]
            ELSE LET r == ParseValue(s, j)
                     k == SkipWs(s, r.next)
                 IN IF r.ok /\ k <= Len(s) /\ s[k] = "]"
                    THEN [ok |-> TRUE, val |-> <<"arr", <<r.val>> >>, next |-> k + 1]
                    ELSE NoParse
    ELSE NoParse

JsonParse(s) ==
    LET r == ParseValue(s, SkipWs(s, 1))
    IN IF r.ok /\ SkipWs(s, r.next) > Len(s) THEN r.val ELSE Invalid

\* The longest payload, in characters.
MaxPayloadLen == 5

PayloadChars == {Backquote, " ", "1", "\"", "[", "]"}

Texts(n) == UNION { [1..k -> PayloadChars] : k \in 0..n }

\* The valid JSON payloads of at most MaxPayloadLen characters.
Payloads == { s \in Texts(MaxPayloadLen) : JsonParse(s) # Invalid }

\* The whitespace that may surround the fences.
WsStrings == { <<>>, <<" ">>, <<"\n">> }

NotCleaned == <<"(not called)">>

\* A response text: a payload between an opening fence and the closing fence,
\* with whitespace around each.
Fenced(open, a, p, b, c, d) == a \o open \o b \o p \o c \o Fence3 \o d

\* const jsonString = cleanJsonString(response.text)
cleanJsonString_call ==
    /\ cleaned = NotCleaned
    /\ cleaned' = cleanJsonString(str)
    /\ UNCHANGED <<payload, fence, str>>
    /\ UNCHANGED <<serviceVars, favVars, uiVars>>

\* ------------------------------------------- the generative-text calls
\* The messages of the errors the text functions throw (accents dropped), of
\* JSON.parse's SyntaxError and of the TypeError of quotesRaw.map.
M_empty == <<"A", "P", "I", " ", "r", "e", "t", "o", "r", "n", "o", "u",
           " ", "c", "o", "n", "t", "e", "u", "d", "o", " ",
           "v", "a", "z", "i", "o", ".">>
M_emptyDaily == <<"A", "P", "I", " ", "r", "e", "t", "o", "r", "n", "o",
                "u", " ", "c", "o", "n", "t", "e", "u",
                "d", "o", " ", "v", "a", "z", "i", "o",
                " ", "p", "a", "r", "a", " ", "C", "i",
                "t", "a", "c", "a", "o", " ", "d", "o",
                " ", "D", "i", "a", ".">>
M_invalidFormat == <<"F", "o", "r", "m", "a", "t", "o", " ", "i", "n", "v",
                   "a", "l", "i", "d", "o", " ", "r",
                   "e", "c", "e", "b", "i", "d", "o",
                   " ", "d", "a", " ", "A", "P", "I", ".">>
M_syntax == <<"U", "n", "e", "x", "p", "e", "c", "t", "e", "d", " ", "e",
            "n", "d", " ", "o", "f", " ", "J", "S", "O", "N",
            " ", "i", "n", "p", "u", "t">>
M_notfunction == <<"q", "u", "o", "t", "e", "s", "R", "a", "w", ".", "m",
                 "a", "p", " ", "i", "s", " ", "n", "o",
                 "t", " ", "a", " ", "f", "u", "n", "c",
                 "t", "i", "o", "n">>

\* response.text of the quotes call: undefined, blank, an empty object, an
\* array bare or fenced, a truncated array, a number.
QuotesTexts ==
    { <<>>, <<" ">>, <<"{", "}">>, <<"[", "]">>, <<"[", "\"", "q", "\"", "]">>,
      Fenced(FenceJson, <<>>, <<"[", "\"", "q", "\"", "]">>, <<"\n">>, <<"\n">>, <<>>),
      <<"[", "\"", "q">>, <<"1">> }

\* getPhilosophicalQuotes after its await: cleanJsonString, the emptiness
\* test, JSON.parse and quotesRaw.map
QuotesSettle(text) ==
    LET jsonString == cleanJsonString(text)
    IN IF jsonString = <<>> \/ jsonString = <<"{", "}">>
       THEN [parse |-> "none", settled |-> Rejected(NewError(M_empty))]
       ELSE LET quotesRaw == JsonParse(jsonString)
            IN IF quotesRaw = Invalid
               THEN [parse |-> "threw", settled |-> Rejected(NewError(M_syntax))]
               ELSE IF quotesRaw[1] # "arr"
               THEN [parse |-> "ok", settled |-> Rejected(NewError(M_notfunction))]
               ELSE [parse |-> "ok", settled |-> Resolved]

\* quoteResponse.text of the daily call: empty, not JSON, the JSON null, an
\* object without quote, an object with one.
DailyResponses == {"empty", "unparsable", "null_json", "no_quote", "quote"}

\* getQuoteOfTheDay after its await, up to the call of generateQuoteImage
DailySettle(resp) ==
    IF resp = "empty"
    THEN [parse |-> "none", settled |-> Rejected(NewError(M_emptyDaily))]
    ELSE IF resp = "unparsable"
    THEN [parse |-> "threw", settled |-> Rejected(NewError(M_syntax))]
    ELSE IF resp \in {"null_json", "no_quote"}
    THEN [parse |-> "ok", settled |-> Rejected(NewError(M_invalidFormat))]
    ELSE [parse |-> "ok", settled |-> Pending]

\* const ai = getAiClient(); const response = await withRetry(...)
getAiClient_withRetry(f) ==
    /\ Returned
    /\ fn' = f
    /\ parse' = "none"
    /\ pexelsResp' = NoResp
    /\ pexelsSettled' = PendingResult
    /\ aiBytes' = NoBytes
    /\ pexelsImage' = NoUrl
    /\ trace' = <<>>
    /\ result' = PendingResult
    /\ IF getAiClientThrows(aiInstance, apiKey)
       THEN /\ textResult' = Rejected(NewError(M_keymissing))
            /\ pc' = "done"
            /\ withRetry_none
            /\ UNCHANGED aiInstance
       ELSE /\ aiInstance' = TRUE
            /\ textResult' = Pending
            /\ pc' = f
            /\ \E op \in Operations : withRetry_enter(op)
    /\ UNCHANGED <<envVars, searchKeywords>>
    /\ UNCHANGED <<favVars, jsonVars, uiVars>>

getPhilosophicalQuotes_begin == getAiClient_withRetry("quotes")

\* after the quotes call settled: clean, parse and map the response
getPhilosophicalQuotes_parse ==
    /\ pc = "quotes"
    /\ settled.kind # "pending"
    /\ IF settled.kind = "rejected"
       THEN textResult' = Rejected(settled.error) /\ UNCHANGED parse
       ELSE \E text \in QuotesTexts :
              /\ parse' = QuotesSettle(text).parse
              /\ textResult' = QuotesSettle(text).settled
    /\ pc' = "done"
    /\ UNCHANGED <<envVars, aiInstance, retryVars, searchKeywords, aiBytes,
                   pexelsImage, trace, result, fn, pexelsResp, pexelsSettled>>
    /\ UNCHANGED <<favVars, jsonVars, uiVars>>

getQuoteOfTheDay_begin == getAiClient_withRetry("daily")

\* after the daily call settled: clean, parse, test, then generateQuoteImage
getQuoteOfTheDay_parse ==
    /\ pc = "daily"
    /\ settled.kind # "pending"
    /\ IF settled.kind = "rejected"
       THEN textResult' = Rejected(settled.error) /\ pc' = "done" /\ UNCHANGED parse
       ELSE \E resp \in DailyResponses :
              /\ parse' = DailySettle(resp).parse
              /\ textResult' = DailySettle(resp).settled
              /\ pc' = IF DailySettle(resp).settled.kind = "pending"
                       THEN "daily_image" ELSE "done"
    /\ UNCHANGED <<envVars, aiInstance, retryVars, searchKeywords, aiBytes,
                   pexelsImage, trace, result, fn, pexelsResp, pexelsSettled>>
    /\ UNCHANGED <<favVars, jsonVars, uiVars>>

\* const imageUrl = await generateQuoteImage(...); return { ..., imageUrl }
getQuoteOfTheDay_return ==
    /\ fn = "daily"
    /\ pc = "done"
    /\ textResult.kind = "pending"
    /\ textResult' = IF result.kind = "rejected" THEN Rejected(result.error) ELSE Resolved
    /\ UNCHANGED <<envVars, aiInstance, pc, retryVars, searchKeywords, aiBytes,
                   pexelsImage, trace, result, fn, parse, pexelsResp, pexelsSettled>>
    /\ UNCHANGED <<favVars, jsonVars, uiVars>>

\* ------------------------------------------------------------- App.tsx
NoText == <<>>

E_config == <<"C", "o", "n", "f", "i", "g", "u", "r", "a", "c", "a", "o",
            " ", "n", "e", "c", "e", "s", "s", "a", "r", "i",
            "a", ":", " ", "V", "e", "r", "i", "f", "i", "q",
            "u", "e", " ", "s", "e", " ", "a", " ", "A", "P",
            "I", "_", "K", "E", "Y", " ", "e", "s", "t", "a",
            " ", "d", "e", "f", "i", "n", "i", "d", "a", " ",
            "n", "o", " ", ".", "e", "n", "v", " ", "o", "u",
            " ", "n", "o", " ", "p", "a", "i", "n", "e", "l",
            " ", "d", "e", " ", "h", "o", "s", "p", "e", "d",
            "a", "g", "e", "m", ".">>
E_overload == <<"N", "o", "s", "s", "a", " ", "m", "u", "s", "a", " ", "i",
              "n", "s", "p", "i", "r", "a", "d", "o", "r",
              "a", " ", "e", "s", "t", "a", " ", "c", "o",
              "m", " ", "a", "l", "t", "a", " ", "d", "e",
              "m", "a", "n", "d", "a", " ", "n", "o", " ",
              "m", "o", "m", "e", "n", "t", "o", ".", " ",
              "P", "o", "r", " ", "f", "a", "v", "o", "r",
              ",", " ", "a", "g", "u", "a", "r", "d", "e",
              " ", "a", "l", "g", "u", "n", "s", " ", "s",
              "e", "g", "u", "n", "d", "o", "s", " ", "e",
              " ", "t", "e", "n", "t", "e", " ", "n", "o",
              "v", "a", "m", "e", "n", "t", "e", ".">>
E_quota == <<"L", "i", "m", "i", "t", "e", " ", "d", "e", " ", "r", "e",
           "q", "u", "i", "s", "i", "c", "o", "e", "s", " ",
           "e", "x", "c", "e", "d", "i", "d", "o", ".", " ",
           "A", "g", "u", "a", "r", "d", "e", " ", "u", "m",
           " ", "m", "o", "m", "e", "n", "t", "o", " ", "a",
           "n", "t", "e", "s", " ", "d", "e", " ", "b", "u",
           "s", "c", "a", "r", " ", "n", "o", "v", "a", "m",
           "e", "n", "t", "e", ".">>
E_prefix == <<"E", "r", "r", "o", ":", " ">>
E_unknown == <<"F", "a", "l", "h", "a", " ", "d", "e", "s", "c", "o", "n",
             "h", "e", "c", "i", "d", "a", " ", "n", "a", " ",
             "c", "o", "n", "e", "x", "a", "o", ".">>
E_blank == <<"P", "o", "r", " ", "f", "a", "v", "o", "r", ",", " ", "i",
           "n", "s", "i", "r", "a", " ", "u", "m", " ", "t",
           "e", "m", "a", " ", "p", "a", "r", "a", " ", "a",
           " ", "b", "u", "s", "c", "a", ".">>
E_notfound == <<"N", "a", "o", " ", "f", "o", "r", "a", "m", " ", "e", "n",
              "c", "o", "n", "t", "r", "a", "d", "a", "s",
              " ", "c", "i", "t", "a", "c", "o", "e", "s",
              " ", "p", "a", "r", "a", " ", "e", "s", "t",
              "e", " ", "t", "e", "m", "a", ".", " ", "T",
              "e", "n", "t", "e", " ", "o", "u", "t", "r",
              "o", ".">>
S_demanda == <<"d", "e", "m", "a", "n", "d", "a">>
S_Limite == <<"L", "i", "m", "i", "t", "e">>

\* handleApiError testing for the quota marks before the overload marks
handleApiError_QuotaFirst(err) ==
    LET msg == IF err.hasMessage THEN err.message ELSE NoText
    IN IF msg = M_keymissing THEN E_config
       ELSE IF Includes(msg, S_429) \/ Includes(msg, S_quota) THEN E_quota
       ELSE IF \/ Includes(msg, S_503)
               \/ Includes(msg, S_overloaded)
               \/ Includes(msg, S_UNAVAILABLE)
       THEN E_overload
       ELSE E_prefix \o (IF msg # NoText THEN msg ELSE E_unknown)

\* handleApiError: the message App shows for a caught error
handleApiError(err) ==
    LET msg == IF err.hasMessage THEN err.message ELSE NoText
    IN IF msg = M_keymissing THEN E_config
       ELSE IF \/ Includes(msg, S_503)
               \/ Includes(msg, S_overloaded)
               \/ Includes(msg, S_UNAVAILABLE)
       THEN E_overload
       ELSE IF Includes(msg, S_429) \/ Includes(msg, S_quota) THEN E_quota
       ELSE E_prefix \o (IF msg # NoText THEN msg ELSE E_unknown)

\* error.includes("demanda") || error.includes("Limite"): the retry button
RetryButton(err) == Includes(err, S_demanda) \/ Includes(err, S_Limite)

\* The errors an API call of the text functions can throw: those of
\* ErrKinds, and errors whose message carries marks of both the overload and
\* the quota test ("429 after 503", "503 quota"), the missing-key text inside
\* a longer message, or the word UNAVAILABLE alone.
SdkErrors ==
    { Thrown(k, 1) : k \in ErrKindNames }
    \cup { [NewError(m) EXCEPT !.attempt = 1] :
             m \in { S_429 \o <<" ", "a", "f", "t", "e", "r", " ">> \o S_503,
                     S_503 \o <<" ">> \o S_quota,
                     M_keymissing \o <<"!">>,
                     S_UNAVAILABLE } }

\* The error as withRetry rethrows it: a transient error from the last of
\* the calls, any other from the first.
Surfaced(err) ==
    [err EXCEPT !.attempt = IF isOverloaded(err) THEN DefaultRetries + 1 ELSE 1]

\* The errors getPhilosophicalQuotes and getQuoteOfTheDay reject with: what
\* withRetry rethrows and what the functions throw themselves.
ServiceErrors ==
    { Surfaced(err) : err \in SdkErrors }
    \cup { NewError(m) : m \in {M_keymissing, M_empty, M_syntax, M_invalidFormat} }

\* The most quotes a response carries.
MaxFetched == 2

\* A card: a Quote with its imageUrl ('' is NoUrl).
Card(i, text, url) == [id |-> i, quote |-> text, imageUrl |-> url]

NoCard == Card(0, 0, NoUrl)

\* What getPhilosophicalQuotes resolves with: quotesRaw.map(...)
FetchedLists ==
    UNION { { [i \in 1..n |-> Card(i, f[i], NoUrl)] : f \in [1..n -> 1..NumTexts] } :
            n \in 0..MaxFetched }

\* What generateQuoteImage(quoteText) resolves with, told apart by its text.
ImageFor(text) == <<"image for", text>>

\* What getQuoteOfTheDay resolves with.
DailyQuotes == { Card(1, t, ImageFor(t)) : t \in 1..NumTexts }

SearchTerms == { <<>>, <<" ">>, <<"a">>, <<" ", "a", "\n">> }

\* IsBlank without the trim
IsBlank_NoTrim(term) == term = <<>>

\* !searchTerm.trim()
IsBlank(term) == Trim(term) = <<>>

\* SearchDisabled looking at isLoading alone
SearchDisabled_LoadingOnly(loading, dailyLoading) == loading

\* The isLoading prop of SearchBar, which disables its input and button.
SearchDisabled(loading, dailyLoading) == loading \/ dailyLoading

\* SearchBar is rendered in the search view only.
SearchBarShown(view) == view = "search"

\* What the search view renders below the search bar: the spinner while
\* isLoading, else the cards of quotes when there are any, else the error
\* when there is one, else the quote of the day section.
SearchViewShows(loading, cards, err) ==
    IF loading THEN "spinner"
    ELSE IF Len(cards) > 0 THEN "cards"
    ELSE IF err # NoText THEN "error"
    ELSE "daily"

\* The flag kept as it was
AfterFinally_Kept(loading) == loading

\* finally { setIsLoading(false) }, finally { setIsDailyQuoteLoading(false) }
AfterFinally(loading) == FALSE

\* { ...quote, imageUrl }
WithImage(card) == [card EXCEPT !.imageUrl = ImageFor(card.quote)]

\* Promise.all listing the values in the order the promises settled
PromiseAll_SettlingOrder(promises, order) ==
    [k \in 1..Len(promises) |-> promises[order[k]]]

\* await Promise.all(promises): the values in the order of the promises
PromiseAll(promises, order) == [k \in 1..Len(promises) |-> promises[k]]

handleSearchVars == <<quotes, isLoading, errorText, currentView, searchPc, fetchedQuotes,
                      completed, caught, inFlight>>
dailyVars == <<dailyQuote, isDailyQuoteLoading, dailyPc>>

\* The fetchDailyQuote effect, up to its await
fetchDailyQuote_start ==
    /\ dailyPc = "mount"
    /\ isDailyQuoteLoading' = TRUE
    /\ errorText' = NoText
    /\ dailyPc' = "fetch"
    /\ UNCHANGED <<searchTerm, quotes, isLoading, dailyQuote, currentView, searchPc,
                   fetchedQuotes, completed, caught, inFlight>>
    /\ UNCHANGED <<serviceVars, favVars, jsonVars, storeVars, cardVars>>

\* fetchDailyQuote after getQuoteOfTheDay settled
fetchDailyQuote_settle ==
    /\ dailyPc = "fetch"
    /\ \/ \E quote \in DailyQuotes :
            /\ dailyQuote' = quote
            /\ UNCHANGED <<errorText, caught>>
       \/ \E err \in ServiceErrors :
            /\ errorText' = handleApiError(err)
            /\ caught' = err
            /\ UNCHANGED dailyQuote
    /\ isDailyQuoteLoading' = AfterFinally(isDailyQuoteLoading)
    /\ dailyPc' = "done"
    /\ UNCHANGED <<searchTerm, quotes, isLoading, currentView, searchPc,
                   fetchedQuotes, completed, inFlight>>
    /\ UNCHANGED <<serviceVars, favVars, jsonVars, storeVars, cardVars>>

\* SearchBar's input: onChange={(e) => setSearchTerm(e.target.value)}
setSearchTerm ==
    /\ SearchBarShown(currentView)
    /\ ~SearchDisabled(isLoading, isDailyQuoteLoading)
    /\ \E term \in SearchTerms \ {searchTerm} : searchTerm' = term
    /\ UNCHANGED <<handleSearchVars, dailyVars>>
    /\ UNCHANGED <<serviceVars, favVars, jsonVars, storeVars, cardVars>>

\* The navigation tabs: setCurrentView('search'), setCurrentView('favorites')
setCurrentView ==
    /\ \E view \in {"search", "favorites"} \ {currentView} : currentView' = view
    /\ UNCHANGED <<searchTerm, quotes, isLoading, errorText, searchPc, fetchedQuotes,
                   completed, caught, inFlight, dailyVars>>
    /\ UNCHANGED <<serviceVars, favVars, jsonVars, storeVars, cardVars>>

\* handleSearch, called by SearchBar's button or Enter key, up to its await
handleSearch ==
    /\ SearchBarShown(currentView)
    /\ ~SearchDisabled(isLoading, isDailyQuoteLoading)
    /\ inFlight < 2
    /\ IF IsBlank(searchTerm)
       THEN /\ errorText' = E_blank
            /\ caught' = NoError
            /\ UNCHANGED <<quotes, isLoading, currentView, searchPc, fetchedQuotes,
                           completed, inFlight>>
       ELSE /\ isLoading' = TRUE
            /\ errorText' = NoText
            /\ quotes' = <<>>
            /\ currentView' = "search"
            /\ caught' = NoError
            /\ searchPc' = "quotes"
            /\ fetchedQuotes' = <<>>
            /\ completed' = <<>>
            /\ inFlight' = inFlight + 1
    /\ UNCHANGED <<searchTerm, dailyVars>>
    /\ UNCHANGED <<serviceVars, favVars, jsonVars, storeVars, cardVars>>

\* handleSearch after getPhilosophicalQuotes settled
handleSearch_quotes ==
    /\ searchPc = "quotes"
    /\ \/ \E err \in ServiceErrors :
            /\ errorText' = handleApiError(err)
            /\ caught' = err
            /\ isLoading' = AfterFinally(isLoading)
            /\ searchPc' = "idle"
            /\ inFlight' = inFlight - 1
            /\ UNCHANGED fetchedQuotes
       \/ \E fetched \in FetchedLists :
            IF Len(fetched) = 0
            THEN /\ errorText' = E_notfound
                 /\ isLoading' = AfterFinally(FALSE)
                 /\ searchPc' = "idle"
                 /\ inFlight' = inFlight - 1
                 /\ UNCHANGED <<fetchedQuotes, caught>>
            ELSE /\ fetchedQuotes' = fetched
                 /\ searchPc' = "images"
                 /\ UNCHANGED <<errorText, caught, isLoading, inFlight>>
    /\ UNCHANGED <<searchTerm, quotes, currentView, completed, dailyVars>>
    /\ UNCHANGED <<serviceVars, favVars, jsonVars, storeVars, cardVars>>

\* One of the quotesWithImagesPromises settles: its generateQuoteImage
\* resolved.
quotesWithImagesPromises_settle ==
    /\ searchPc = "images"
    /\ \E i \in 1..Len(fetchedQuotes) :
         /\ \A k \in 1..Len(completed) : completed[k] # i
         /\ completed' = Append(completed, i)
    /\ UNCHANGED <<searchTerm, quotes, isLoading, errorText, currentView, searchPc,
                   fetchedQuotes, caught, inFlight, dailyVars>>
    /\ UNCHANGED <<serviceVars, favVars, jsonVars, storeVars, cardVars>>

\* handleSearch after Promise.all resolved: setQuotes, then the finally
handleSearch_all ==
    /\ searchPc = "images"
    /\ Len(completed) = Len(fetchedQuotes)
    /\ quotes' = PromiseAll([i \in 1..Len(fetchedQuotes) |-> WithImage(fetchedQuotes[i])],
                            completed)
    /\ isLoading' = AfterFinally(isLoading)
    /\ searchPc' = "idle"
    /\ inFlight' = inFlight - 1
    /\ UNCHANGED <<searchTerm, errorText, currentView, fetchedQuotes, completed, caught,
                   dailyVars>>
    /\ UNCHANGED <<serviceVars, favVars, jsonVars, storeVars, cardVars>>

\* ------------------------------------------- favorites and localStorage
\* localStorage.getItem returns null for a key never set.
NoItem == <<"null item">>

Digit(n) ==
    CASE n = 0 -> "0" [] n = 1 -> "1" [] n = 2 -> "2" [] n = 3 -> "3" [] n = 4 -> "4"
      [] n = 5 -> "5" [] n = 6 -> "6" [] n = 7 -> "7" [] n = 8 -> "8" [] n = 9 -> "9"

Digits == { Digit(n) : n \in 0..9 }

DigitValue(c) == CHOOSE n \in 0..9 : Digit(n) = c

\* JSON.stringify of a Quote: its id and its text between braces
StringifyQuote(q) == <<"{", Digit(q.id), ":", Digit(q.quote), "}">>

RECURSIVE StringifyItems(_)
StringifyItems(favs) ==
    IF Len(favs) = 0 THEN <<>>
    ELSE IF Len(favs) = 1 THEN StringifyQuote(favs[1])
    ELSE StringifyQuote(favs[1]) \o <<",">> \o StringifyItems(Tail(favs))

\* JSON.stringify(favorites)
Stringify(favs) == <<"[">> \o StringifyItems(favs) \o <<"]">>

\* A parse that threw a SyntaxError, and one that returned a list.
Unparsed == [ok |-> FALSE, list |-> <<>>]
Parsed(list) == [ok |-> TRUE, list |-> list]

\* The items of a serialized list, from character i on.
RECURSIVE ParseItems(_, _)
ParseItems(s, i) ==
    IF /\ i + 4 <= Len(s)
       /\ s[i] = "{" /\ s[i + 1] \in Digits /\ s[i + 2] = ":"
       /\ s[i + 3] \in Digits /\ s[i + 4] = "}"
    THEN LET q == [id |-> DigitValue(s[i + 1]), quote |-> DigitValue(s[i + 3])]
         IN IF i + 5 = Len(s) /\ s[i + 5] = "]" THEN Parsed(<<q>>)
            ELSE IF i + 5 < Len(s) /\ s[i + 5] = ","
            THEN LET rest == ParseItems(s, i + 6)
                 IN IF rest.ok THEN Parsed(<<q>> \o rest.list) ELSE Unparsed
            ELSE Unparsed
    ELSE Unparsed

\* JSON.parse(savedFavorites)
ParseFavorites(s) ==
    IF Len(s) < 2 \/ s[1] # "[" THEN Unparsed
    ELSE IF s = <<"[", "]">> THEN Parsed(<<>>)
    ELSE ParseItems(s, 2)

\* The longest list found in localStorage when the page loads.
MaxStored == 2

StoredLists == UNION { [1..n -> Quotes] : n \in 0..MaxStored }

\* What localStorage can hold when the page loads: nothing, the empty
\* string, a list App saved, or text that is not JSON.
StoredItems ==
    {NoItem, <<>>, <<"[", "{">>} \cup { Stringify(list) : list \in StoredLists }

\* setFavorites(value) and setFavorites(prev => ...)
SetTo(list) == [kind |-> "set", list |-> list, quote |-> NoQuote]
Toggle(quote) == [kind |-> "toggle", list |-> <<>>, quote |-> quote]

\* The state after the queued setFavorites calls, applied in order.
RECURSIVE Reduce(_, _)
Reduce(updates, favs) ==
    IF updates = <<>> THEN favs
    ELSE Reduce(Tail(updates),
                IF Head(updates).kind = "set" THEN Head(updates).list
                ELSE toggleFavorite(favs, Head(updates).quote))

\* The save effect with an empty dependency list
SaveEffectDue_MountOnly(mount, changed) == mount

\* useEffect(..., [favorites]): after the mount, and after a render that
\* changed favorites
SaveEffectDue(mount, changed) == mount \/ changed

\* The effects of the mount commit, in the order App declares them.
MountEffects == <<"load">> \o (IF SaveEffectDue(TRUE, FALSE) THEN <<"save">> ELSE <<>>)

\* useEffect(() => { ... setFavorites(JSON.parse(savedFavorites)) ... }, [])
loadEffect ==
    /\ effects # <<>>
    /\ Head(effects) = "load"
    /\ effects' = Tail(effects)
    /\ LET savedFavorites == storage
       IN IF savedFavorites # NoItem /\ savedFavorites # <<>>
             /\ ParseFavorites(savedFavorites).ok
          THEN queued' = Append(queued, SetTo(ParseFavorites(savedFavorites).list))
          ELSE UNCHANGED queued
    /\ UNCHANGED <<storage, stored0>>
    /\ UNCHANGED <<serviceVars, favVars, jsonVars, appVars, cardVars>>

\* useEffect(() => { localStorage.setItem(...) }, [favorites])
saveEffect ==
    /\ effects # <<>>
    /\ Head(effects) = "save"
    /\ effects' = Tail(effects)
    /\ storage' = Stringify(favorites)
    /\ UNCHANGED <<stored0, queued>>
    /\ UNCHANGED <<serviceVars, favVars, jsonVars, appVars, cardVars>>

\* React renders App again with the queued setFavorites calls applied; the
\* effects of the commit before it have run.
render ==
    /\ effects = <<>>
    /\ queued # <<>>
    /\ favorites' = Reduce(queued, favorites)
    /\ queued' = <<>>
    /\ effects' = IF SaveEffectDue(FALSE, TRUE) THEN <<"save">> ELSE <<>>
    /\ UNCHANGED <<storage, stored0>>
    /\ UNCHANGED <<favBefore, toggled, favBefore2, toggled2>>
    /\ UNCHANGED <<serviceVars, jsonVars, appVars, cardVars>>

\* toggleFavorite(quote), from a card's heart button: setFavorites(prev => ...)
toggleFavorite_click ==
    /\ effects = <<>>
    /\ queued = <<>>
    /\ \E quote \in Quotes : queued' = Append(queued, Toggle(quote))
    /\ UNCHANGED <<storage, stored0, effects>>
    /\ UNCHANGED <<serviceVars, favVars, jsonVars, appVars, cardVars>>

\* ---------------------------------------------------------- QuoteCard
\* 'data:'
S_data == <<"d", "a", "t", "a", ":">>

\* The values of quote.imageUrl: none, a data URI made by the image model,
\* and two external addresses.
ImageUrls ==
    { NoUrl,
      S_data \o <<"p", "n", "g">>,
      <<"h", "t", "t", "p", "s", ":", "1">>,
      <<"h", "t", "t", "p", "s", ":", "2">> }

\* reader.result after readAsDataURL(blob) of what url serves.
DataUrlOf(url) == S_data \o url

\* reader.result when onloadend fires: the data URL, or null after a read
\* error, which renders like ''.
ReaderResults(url) == { DataUrlOf(url), <<>> }

\* How many times the image effect runs on one card.
MaxRuns == 3

\* The setter called whether or not the run was cleaned up
Guarded_Always(isMounted, new, old) == new

\* if (isMounted) { set(new) }
Guarded(isMounted, new, old) == IF isMounted THEN new ELSE old

\* return () => { isMounted = false }, for every run still mounted
Cleanup(rs) == [k \in 1..Len(rs) |-> [rs[k] EXCEPT !.isMounted = FALSE]]

\* disabled={isDownloading || !isImageReady} of the download button
DownloadDisabled(downloading, ready) == downloading \/ ~ready

\* if (!cardRef.current || !isImageReady) return
DownloadReturns(hasRef, ready) == ~hasRef \/ ~ready

\* The parent renders the card with another quote.imageUrl: the effect's
\* dependency changed.
setImageUrl ==
    /\ cardMounted
    /\ ~effectDue
    /\ Len(runs) < MaxRuns
    /\ \E url \in ImageUrls \ {imageUrl} : imageUrl' = url
    /\ effectDue' = TRUE
    /\ UNCHANGED <<cardMounted, runs, imgSrc, isImageReady, isDownloading, downloaded>>
    /\ UNCHANGED <<serviceVars, favVars, jsonVars, appVars, storeVars>>

\* The image effect: the cleanup of the run before, then the body up to its
\* first await.
useEffect_imageUrl ==
    /\ cardMounted
    /\ effectDue
    /\ effectDue' = FALSE
    /\ IF imageUrl = NoUrl
       THEN /\ runs' = Append(Cleanup(runs), [url |-> imageUrl, isMounted |-> TRUE,
                                              stage |-> "returned"])
            /\ isImageReady' = FALSE
            /\ UNCHANGED imgSrc
       ELSE IF StartsWith(imageUrl, S_data)
       THEN /\ runs' = Append(Cleanup(runs), [url |-> imageUrl, isMounted |-> TRUE,
                                              stage |-> "done"])
            /\ imgSrc' = Guarded(TRUE, imageUrl, imgSrc)
            /\ isImageReady' = Guarded(TRUE, TRUE, FALSE)
       ELSE /\ runs' = Append(Cleanup(runs), [url |-> imageUrl, isMounted |-> TRUE,
                                              stage |-> "fetch"])
            /\ isImageReady' = FALSE
            /\ UNCHANGED imgSrc
    /\ UNCHANGED <<cardMounted, imageUrl, isDownloading, downloaded>>
    /\ UNCHANGED <<serviceVars, favVars, jsonVars, appVars, storeVars>>

\* The card leaves the page: the cleanup of its effect runs.
unmount ==
    /\ cardMounted
    /\ ~effectDue
    /\ cardMounted' = FALSE
    /\ runs' = Cleanup(runs)
    /\ UNCHANGED <<imageUrl, effectDue, imgSrc, isImageReady, isDownloading, downloaded>>
    /\ UNCHANGED <<serviceVars, favVars, jsonVars, appVars, storeVars>>

\* catch (error): the fallback to the address itself, quote.imageUrl of the
\* render the run belongs to. A run ends "done" when its setters were called
\* and "dropped" when the isMounted test skipped them.
processImage_catch(r) ==
    /\ imgSrc' = Guarded(runs[r].isMounted, runs[r].url, imgSrc)
    /\ isImageReady' = Guarded(runs[r].isMounted, TRUE, isImageReady)
    /\ runs' = [runs EXCEPT ![r].stage = IF runs[r].isMounted THEN "done"
                                            ELSE "dropped"]

\* await fetch(quote.imageUrl, { mode: 'cors' }) settles.
processImage_fetch(r) ==
    /\ ~effectDue
    /\ r \in 1..Len(runs)
    /\ runs[r].stage = "fetch"
    /\ \/ /\ runs' = [runs EXCEPT ![r].stage = "blob"]
          /\ UNCHANGED <<imgSrc, isImageReady>>
       \/ processImage_catch(r)
    /\ UNCHANGED <<cardMounted, imageUrl, effectDue, isDownloading, downloaded>>
    /\ UNCHANGED <<serviceVars, favVars, jsonVars, appVars, storeVars>>

\* await response.blob() settles; the reader starts on the blob.
processImage_blob(r) ==
    /\ ~effectDue
    /\ r \in 1..Len(runs)
    /\ runs[r].stage = "blob"
    /\ \/ /\ runs' = [runs EXCEPT ![r].stage = "reader"]
          /\ UNCHANGED <<imgSrc, isImageReady>>
       \/ processImage_catch(r)
    /\ UNCHANGED <<cardMounted, imageUrl, effectDue, isDownloading, downloaded>>
    /\ UNCHANGED <<serviceVars, favVars, jsonVars, appVars, storeVars>>

\* reader.onloadend
reader_onloadend(r) ==
    /\ ~effectDue
    /\ r \in 1..Len(runs)
    /\ runs[r].stage = "reader"
    /\ \E res \in ReaderResults(runs[r].url) :
         imgSrc' = Guarded(runs[r].isMounted, res, imgSrc)
    /\ isImageReady' = Guarded(runs[r].isMounted, TRUE, isImageReady)
    /\ runs' = [runs EXCEPT ![r].stage = IF runs[r].isMounted THEN "done"
                                            ELSE "dropped"]
    /\ UNCHANGED <<cardMounted, imageUrl, effectDue, isDownloading, downloaded>>
    /\ UNCHANGED <<serviceVars, favVars, jsonVars, appVars, storeVars>>

\* A click on the download button: handleDownload up to its first await.
handleDownload ==
    /\ cardMounted
    /\ ~effectDue
    /\ ~DownloadDisabled(isDownloading, isImageReady)
    /\ IF DownloadReturns(cardMounted, isImageReady)
       THEN UNCHANGED isDownloading
       ELSE isDownloading' = TRUE
    /\ UNCHANGED <<cardMounted, imageUrl, effectDue, runs, imgSrc, isImageReady,
                   downloaded>>
    /\ UNCHANGED <<serviceVars, favVars, jsonVars, appVars, storeVars>>

\* The rest of handleDownload: the canvas is saved, or html2canvas throws
\* and the alert is shown; finally setIsDownloading(false).
handleDownload_finish ==
    /\ isDownloading
    /\ ~effectDue
    /\ downloaded' \in {"saved", "failed"}
    /\ isDownloading' = FALSE
    /\ UNCHANGED <<cardMounted, imageUrl, effectDue, runs, imgSrc, isImageReady>>
    /\ UNCHANGED <<serviceVars, favVars, jsonVars, appVars, storeVars>>

\* ------------------------------------------------------------ the service
FavInit0 ==
    /\ favorites = <<>>
    /\ favBefore = <<>>
    /\ toggled = NoQuote
    /\ favBefore2 = <<>>
    /\ toggled2 = NoQuote

JsonInit0 ==
    /\ payload = <<>>
    /\ fence = "none"
    /\ str = <<>>
    /\ cleaned = NotCleaned

AppInit0 ==
    /\ searchTerm = <<>>
    /\ quotes = <<>>
    /\ isLoading = FALSE
    /\ errorText = NoText
    /\ dailyQuote = NoCard
    /\ isDailyQuoteLoading = TRUE
    /\ currentView = "search"
    /\ searchPc = "idle"
    /\ fetchedQuotes = <<>>
    /\ completed = <<>>
    /\ dailyPc = "mount"
    /\ caught = NoError
    /\ inFlight = 0

\* No card is rendered.
CardInit0 ==
    /\ cardMounted = FALSE
    /\ imageUrl = NoUrl
    /\ effectDue = FALSE
    /\ runs = <<>>
    /\ imgSrc = <<>>
    /\ isImageReady = FALSE
    /\ isDownloading = FALSE
    /\ downloaded = "none"

\* No page is loaded: nothing stored, no effect to run.
StoreInit0 ==
    /\ storage = NoItem
    /\ stored0 = NoItem
    /\ effects = <<>>
    /\ queued = <<>>

ServiceInit0 ==
    /\ pc = "idle"
    /\ operation = NoOperation
    /\ retries = DefaultRetries
    /\ delay = DefaultDelay
    /\ attempts = <<>>
    /\ sleeps = <<>>
    /\ rpc = "idle"
    /\ settled = Pending
    /\ searchKeywords = "abstract nature"
    /\ aiBytes = NoBytes
    /\ pexelsImage = NoUrl
    /\ trace = <<>>
    /\ result = PendingResult
    /\ fn = "none"
    /\ parse = "none"
    /\ textResult = Pending
    /\ pexelsResp = NoResp
    /\ pexelsSettled = PendingResult

\* The module between two calls: either file, with or without its keys
\* configured; the singleton client exists if an earlier call made it, which
\* takes the key.
Init ==
    /\ variant \in {"pexels", "imagen"}
    /\ apiKey \in BOOLEAN
    /\ pexelsKey \in BOOLEAN
    /\ aiInstance \in {inst \in BOOLEAN : inst => apiKey}
    /\ ServiceInit0
    /\ FavInit0
    /\ JsonInit0
    /\ AppInit0 /\ CardInit0
    /\ StoreInit0

Next ==
    \/ generateQuoteImage_begin
    \/ generateQuoteImage_analysis
    \/ generateQuoteImage_image
    \/ generateQuoteImage_catch
    \/ generateQuoteImageImagen_begin
    \/ generateQuoteImageImagen_description
    \/ generateQuoteImageImagen_image
    \/ getPhilosophicalQuotes_begin
    \/ getPhilosophicalQuotes_parse
    \/ getQuoteOfTheDay_begin
    \/ getQuoteOfTheDay_parse
    \/ getQuoteOfTheDay_return
    \/ withRetry_call
    \/ withRetry_sleep

Spec == Init /\ [][Next]_vars

\* ------------------------------------------------- the favorites list
ServiceIdle ==
    /\ variant = "pexels"
    /\ apiKey = TRUE
    /\ pexelsKey = TRUE
    /\ aiInstance = FALSE
    /\ ServiceInit0

InitFav == ServiceIdle /\ FavInit0 /\ JsonInit0 /\ AppInit0 /\ CardInit0 /\ StoreInit0

NextFav == onToggleFavorite

SpecFav == InitFav /\ [][NextFav]_vars

\* ----------------------------------------------------- the JSON cleanup
InitJson ==
    /\ ServiceIdle
    /\ FavInit0
    /\ AppInit0 /\ CardInit0
    /\ StoreInit0
    /\ payload \in Payloads
    /\ fence \in {"json", "plain", "none"}
    /\ cleaned = NotCleaned
    /\ \E a \in WsStrings, b \in WsStrings, c \in WsStrings, d \in WsStrings :
         str = IF fence = "json" THEN Fenced(FenceJson, a, payload, b, c, d)
               ELSE IF fence = "plain" THEN Fenced(Fence3, a, payload, b, c, d)
               ELSE payload

NextJson == cleanJsonString_call

SpecJson == InitJson /\ [][NextJson]_vars

\* ------------------------------------------- App: search and daily quote
\* App after its first render, before its effects have run.
InitApp == ServiceIdle /\ FavInit0 /\ JsonInit0 /\ AppInit0 /\ CardInit0 /\ StoreInit0

NextApp ==
    \/ fetchDailyQuote_start
    \/ fetchDailyQuote_settle
    \/ setSearchTerm
    \/ setCurrentView
    \/ handleSearch
    \/ handleSearch_quotes
    \/ quotesWithImagesPromises_settle
    \/ handleSearch_all

SpecApp == InitApp /\ [][NextApp]_vars

\* Every call of the service settles, every settled promise resumes its
\* handler, and React runs the effects of the mount.
SpecAppFair ==
    /\ SpecApp
    /\ WF_vars(fetchDailyQuote_start)
    /\ WF_vars(fetchDailyQuote_settle)
    /\ WF_vars(handleSearch_quotes)
    /\ WF_vars(quotesWithImagesPromises_settle)
    /\ WF_vars(handleSearch_all)

\* ---------------------------------------- App: favorites and localStorage
\* App after its first render, with whatever localStorage holds.
InitStartup ==
    /\ ServiceIdle /\ FavInit0 /\ JsonInit0 /\ AppInit0 /\ CardInit0
    /\ storage \in StoredItems
    /\ stored0 = storage
    /\ effects = MountEffects
    /\ queued = <<>>

NextStartup == loadEffect \/ saveEffect \/ render

SpecStartup == InitStartup /\ [][NextStartup]_vars

\* App after its first render on a browser that never stored favorites.
InitStore ==
    /\ ServiceIdle /\ FavInit0 /\ JsonInit0 /\ AppInit0 /\ CardInit0
    /\ storage = NoItem
    /\ stored0 = NoItem
    /\ effects = MountEffects
    /\ queued = <<>>

NextStore == loadEffect \/ saveEffect \/ render \/ toggleFavorite_click

SpecStore == InitStore /\ [][NextStore]_vars

\* ------------------------------------------------------- one QuoteCard
\* A card after its first render, for any quote, before its effect has run.
InitCard ==
    /\ ServiceIdle /\ FavInit0 /\ JsonInit0 /\ AppInit0 /\ StoreInit0
    /\ cardMounted = TRUE
    /\ imageUrl \in ImageUrls
    /\ effectDue = TRUE
    /\ runs = <<>>
    /\ imgSrc = <<>>
    /\ isImageReady = FALSE
    /\ isDownloading = FALSE
    /\ downloaded = "none"

NextCard ==
    \/ setImageUrl
    \/ useEffect_imageUrl
    \/ unmount
    \/ \E r \in 1..MaxRuns : processImage_fetch(r)
    \/ \E r \in 1..MaxRuns : processImage_blob(r)
    \/ \E r \in 1..MaxRuns : reader_onloadend(r)
    \/ handleDownload
    \/ handleDownload_finish

SpecCard == InitCard /\ [][NextCard]_vars

\* ================================================================ claims
\* A transient-overload error as the claims word it: the message contains
\* 'overloaded' or '503', the code is 503, or the status is 'UNAVAILABLE'.
TransientError(error) ==
    \/ error.hasMessage /\ Includes(error.message, S_overloaded)
    \/ error.hasMessage /\ Includes(error.message, S_503)
    \/ error.code = 503
    \/ error.status = "UNAVAILABLE"

TransientKind(kind) == TransientError(Thrown(kind, 1))

\* A rate-limited error: HTTP 429 or a message about the quota.
RateLimited(error) ==
    \/ error.hasMessage /\ Includes(error.message, S_429)
    \/ error.hasMessage /\ Includes(error.message, S_quota)
    \/ error.code = 429

TransientFailure(out) == ~out.ok /\ TransientError(out.error)

WithRetrySettled == rpc \in {"resolved", "rejected"}

\* The operation fails only with transient errors: some times and then
\* succeeds, or for ever.
FailsOnlyTransiently(op) ==
    /\ op.fails > 0 => TransientKind(op.kind)
    /\ op.final # "ok" => TransientKind(op.final)

\* C1: for an operation that fails with a transient-overload error N times in
\* a row before it succeeds, or for ever, withRetry with its 3 default retries
\* has called it exactly min(N+1, 4) times when it settles, and the delays
\* slept are 2000, 4000, 8000 in that order, each larger than the one before.
C1_AttemptsAndDelays ==
    /\ (WithRetrySettled /\ FailsOnlyTransiently(operation)) =>
          /\ Len(attempts) = IF operation.final = "ok"
                             THEN Min(operation.fails + 1, 4) ELSE 4
          /\ sleeps = SubSeq(<<2000, 4000, 8000>>, 1, Len(attempts) - 1)
    /\ \A i \in 1..(Len(sleeps) - 1) : sleeps[i] < sleeps[i + 1]

C1_Witness ==
    /\ rpc = "resolved"
    /\ operation.fails = 3
    /\ Len(attempts) = 4
    /\ sleeps = <<2000, 4000, 8000>>

\* C2: a call of the operation that fails with an error that is not a
\* transient-overload error is the last call, whatever retries remain: no
\* sleep follows it and withRetry rejects with that same error; when it is
\* the first call, the operation was called once and nothing was slept.
C2_NonTransientRethrown ==
    \A n \in 1..Len(attempts) :
        (~attempts[n].ok /\ ~TransientError(attempts[n].error)) =>
            /\ n = Len(attempts)
            /\ Len(sleeps) = n - 1
            /\ rpc = "rejected"
            /\ settled = Rejected(attempts[n].error)

C2_Witness ==
    /\ Len(attempts) = 1
    /\ ~attempts[1].ok
    /\ ~TransientError(attempts[1].error)
    /\ retries = DefaultRetries
    /\ sleeps = <<>>
    /\ settled = Rejected(attempts[1].error)

\* The AI image path of the call failed: no image bytes came back.
AiPathFailed == aiBytes = NoBytes

FallbackSet == { FALLBACK_IMAGES[i] : i \in 1..Len(FALLBACK_IMAGES) }

\* C3: when generateQuoteImage has settled after its AI path failed and the
\* stock-photo lookup returned a URL, it resolved to exactly that URL, which
\* is none of the static fallback images.
C3_StockPhotoReturned ==
    (pc = "done" /\ AiPathFailed /\ pexelsImage # NoUrl) =>
        /\ result = ResolvedWith(pexelsImage)
        /\ result.value \notin FallbackSet

C3_Witness ==
    /\ pc = "done"
    /\ "ai_image" \in {trace[i] : i \in 1..Len(trace)}
    /\ settled.kind = "rejected"
    /\ pexelsImage # NoUrl
    /\ result = ResolvedWith(pexelsImage)

\* C4: whenever generateQuoteImage has settled after its AI path failed (a
\* missing API credential included) and the stock-photo lookup yielded
\* nothing, it resolved, and did not reject, with a member of FALLBACK_IMAGES.
C4_AlwaysAFallbackImage ==
    (pc = "done" /\ result.kind # "pending" /\ AiPathFailed /\ pexelsImage = NoUrl) =>
        /\ result.kind = "resolved"
        /\ result.value \in FallbackSet

\* C7: while every call of the operation has failed with a transient-overload
\* error, withRetry has made at most 4 calls; after the 4th it makes no
\* further call and has rejected with the error the 4th call threw; before
\* the 4th it has not settled.
C7_ExhaustedRetriesSurface ==
    (\A n \in 1..Len(attempts) : TransientFailure(attempts[n])) =>
        /\ Len(attempts) <= DefaultRetries + 1
        /\ Len(attempts) = DefaultRetries + 1 =>
              /\ rpc = "rejected"
              /\ settled = Rejected(attempts[Len(attempts)].error)
              /\ settled.error.attempt = DefaultRetries + 1
        /\ (0 < Len(attempts) /\ Len(attempts) < DefaultRetries + 1) =>
              rpc \in {"sleep", "call"}

C7_Witness ==
    /\ Len(attempts) = DefaultRetries + 1
    /\ \A n \in 1..Len(attempts) : TransientFailure(attempts[n])
    /\ rpc = "rejected"
    /\ settled.error.attempt = DefaultRetries + 1

\* C8 as stated: withRetry surfaces a rate-limited failure (HTTP 429, quota
\* exceeded) only after the fixed attempt count, having slept between the
\* attempts, as it does a service-unavailable failure.
C8_RateLimitedRetried ==
    (rpc = "rejected" /\ RateLimited(settled.error)) =>
        /\ Len(attempts) = DefaultRetries + 1
        /\ Len(sleeps) = DefaultRetries

\* C8 amended: a rate-limited failure that carries none of the overload marks
\* is not retried: the call that fails with it is the last, no sleep follows
\* and withRetry rejects with it at once; every failure that was followed by
\* another call carried an overload mark.
C8_RateLimitedNotRetried ==
    /\ \A n \in 1..Len(attempts) :
          (~attempts[n].ok /\ RateLimited(attempts[n].error)
             /\ ~TransientError(attempts[n].error)) =>
              /\ n = Len(attempts)
              /\ rpc = "rejected"
              /\ settled.error = attempts[n].error
              /\ Len(sleeps) = n - 1
    /\ \A n \in 1..(Len(attempts) - 1) : TransientFailure(attempts[n])

C8_Witness ==
    /\ Len(attempts) = 2
    /\ TransientFailure(attempts[1])
    /\ ~attempts[2].ok
    /\ RateLimited(attempts[2].error)
    /\ rpc = "rejected"
    /\ Len(sleeps) = 1

\* The place of an image source in the fixed order.
Rank(src) ==
    CASE src = "ai_text" -> 1
      [] src = "ai_image" -> 2
      [] src = "pexels" -> 3
      [] src = "static" -> 4

Consulted == {trace[i] : i \in 1..Len(trace)}

\* C10: generateQuoteImage consults AI generation, then the stock photo, then
\* the static list, never going back; when the AI call returned image bytes
\* neither the stock-photo API nor the static list was consulted and the
\* result is the data URI of those bytes; when the stock-photo lookup
\* returned a URL the static list was not consulted; and what it resolves to
\* is the first of the three that was not empty.
C10_FixedOrderFirstResult ==
    /\ \A i \in 1..Len(trace), j \in 1..Len(trace) :
          i < j => Rank(trace[i]) < Rank(trace[j])
    /\ aiBytes # NoBytes =>
          /\ "pexels" \notin Consulted
          /\ "static" \notin Consulted
          /\ result = ResolvedWith(DataUri(aiBytes))
    /\ pexelsImage # NoUrl => "static" \notin Consulted
    /\ (pc = "done" /\ result.kind = "resolved") =>
          IF aiBytes # NoBytes THEN result.value = DataUri(aiBytes)
          ELSE IF pexelsImage # NoUrl THEN result.value = pexelsImage
          ELSE result.value \in FallbackSet /\ "static" \in Consulted

C10_Witness ==
    /\ pc = "done"
    /\ trace = <<"ai_text", "ai_image", "pexels", "static">>
    /\ result.value \in FallbackSet

\* The favorites without the entries of a text.
WithoutText(favs, quoteText) == SelectSeq(favs, LAMBDA fav : fav.quote # quoteText)

HasText(favs, quoteText) == \E i \in 1..Len(favs) : favs[i].quote = quoteText

TwiceInARow == toggled # NoQuote /\ toggled2 = toggled

\* C5 as stated: after two toggleFavorite calls in a row with the same quote
\* the favorites list is the list before the two calls.
C5_ToggleTwiceIdentity == TwiceInARow => favorites = favBefore2

\* C5 amended: after two toggleFavorite calls in a row with the same quote the
\* list is the list before the two calls when the quote's text was absent
\* from it; when the text was present, the list is the given quote followed
\* by the entries of the other texts in their original order.
C5_ToggleTwice ==
    TwiceInARow =>
        IF HasText(favBefore2, toggled.quote)
        THEN favorites = <<toggled>> \o WithoutText(favBefore2, toggled.quote)
        ELSE favorites = favBefore2

C5_Witness ==
    /\ TwiceInARow
    /\ Len(favBefore2) >= 2
    /\ favBefore2[2].quote = toggled.quote
    /\ favorites # favBefore2

\* C9: the favorites list never holds two entries of the same quote text;
\* isQuoteFavorite(t) is true exactly when an entry of text t is in the list;
\* and a toggleFavorite changes whether the toggled text is a favorite and
\* leaves every other text as it was.
C9_KeyedByText ==
    /\ \A i \in 1..Len(favorites), j \in 1..Len(favorites) :
          favorites[i].quote = favorites[j].quote => i = j
    /\ \A t \in 1..NumTexts :
          isQuoteFavorite(favorites, t) <=> t \in {favorites[i].quote : i \in 1..Len(favorites)}
    /\ toggled # NoQuote =>
          \A t \in 1..NumTexts :
              HasText(favorites, t) <=>
                  IF t = toggled.quote THEN ~HasText(favBefore, t) ELSE HasText(favBefore, t)

C9_Witness ==
    /\ Len(favBefore) = 1
    /\ toggled.quote = favBefore[1].quote
    /\ toggled.id # favBefore[1].id
    /\ favorites = <<>>

\* C6: cleanJsonString of a valid JSON payload inside code fences (with the
\* json tag or without, whitespace around) parses to the value the payload
\* parses to; of a payload without fences it is the payload trimmed.
C6_FencesStripped ==
    cleaned # NotCleaned =>
        IF fence = "none"
        THEN cleaned = Trim(payload)
        ELSE /\ JsonParse(cleaned) # Invalid
             /\ JsonParse(cleaned) = JsonParse(payload)

C6_Witness ==
    /\ fence = "json"
    /\ payload = <<"\"", Backquote, Backquote, Backquote, "\"">>
    /\ Len(str) > Len(payload) + Len(FenceJson) + Len(Fence3)
    /\ cleaned = payload

\* The text function in flight has ended on its own JSON.parse.
TextParseFailed ==
    parse = "threw" /\ fn \in {"quotes", "daily"} /\ pc = "done" /\ result.kind = "pending"

Consults(src) == src \in {trace[i] : i \in 1..Len(trace)}

\* C11 (as stated): once a response could not be parsed as JSON and the
\* operation has failed or fallen through, the call has been made the fixed
\* number of times, a backoff sleep before each repetition.
C11_ParseFailureRetried ==
    (parse = "threw" /\ pc \in {"catch", "done"}) =>
        /\ Len(attempts) = DefaultRetries + 1
        /\ Len(sleeps) = DefaultRetries

\* C11 (as the code has it): a response that cannot be parsed as JSON is
\* never retried.  After the parse failure no call is in flight and no sleep
\* is pending: the only call that did not throw is the last one made,
\* getPhilosophicalQuotes and getQuoteOfTheDay have rejected with the
\* SyntaxError, and generateQuoteImage has gone to its catch without asking
\* for an AI image, to resolve with a stock image.
C11_ParseFailureNotRetried ==
    parse = "threw" =>
        /\ rpc = "resolved"
        /\ Len(attempts) >= 1
        /\ attempts[Len(attempts)].ok
        /\ \A i \in 1..(Len(attempts) - 1) : ~attempts[i].ok
        /\ Len(sleeps) = Len(attempts) - 1
        /\ IF fn \in {"quotes", "daily"} /\ pc = "done" /\ result.kind = "pending"
           THEN textResult = Rejected(NewError(M_syntax))
           ELSE /\ pc \in {"catch", "done"}
                /\ ~Consults("ai_image")
                /\ pc = "done" =>
                      /\ result.kind = "resolved"
                      /\ result.value[1] # "data:image/jpeg;base64,"

C11_Witness ==
    /\ TextParseFailed
    /\ fn = "quotes"
    /\ Len(attempts) = 1
    /\ textResult.kind = "rejected"

\* C13: fetchPexelsImage never rejects.  Without a Pexels key it resolves to
\* nothing and no request is sent; with one, a request is sent, and it resolves
\* to the first photo's URL when the search answered with a photo and to
\* nothing when it answered anything else.
C13_UrlOrNothing ==
    pexelsSettled.kind # "pending" =>
        /\ pexelsSettled.kind = "resolved"
        /\ IF ~pexelsKey
           THEN /\ pexelsResp.kind = "none"
                /\ ~Consults("pexels")
                /\ pexelsSettled.value = NoUrl
           ELSE /\ pexelsResp.kind # "none"
                /\ Consults("pexels")
                /\ pexelsSettled.value =
                      IF pexelsResp.kind = "photo" THEN pexelsResp.url ELSE NoUrl

C13_Witness ==
    /\ pexelsKey
    /\ pexelsSettled.kind = "resolved"
    /\ pexelsResp.kind = "photo"
    /\ pexelsSettled.value # NoUrl
    /\ result = ResolvedWith(pexelsSettled.value)

\* The message of the caught error as handleApiError reads it, and the marks
\* of the overload and quota categories as the claims word them.
MessageOf(err) == IF err.hasMessage THEN err.message ELSE NoText

OverloadMarked(msg) ==
    Includes(msg, S_503) \/ Includes(msg, S_overloaded) \/ Includes(msg, S_UNAVAILABLE)

QuotaMarked(msg) == Includes(msg, S_429) \/ Includes(msg, S_quota)

\* The categories a shown message falls under.
Categories(text) ==
    { c \in {"credential", "overload", "quota", "unknown"} :
        \/ c = "credential" /\ text = E_config
        \/ c = "overload" /\ text = E_overload
        \/ c = "quota" /\ text = E_quota
        \/ c = "unknown" /\ StartsWith(text, E_prefix) }

\* C12: the message shown for a caught error falls under exactly one of the
\* four categories, chosen in a fixed order: missing credential when the
\* message is API_KEY_MISSING, else overload when it contains 503, overloaded
\* or UNAVAILABLE, else quota when it contains 429 or quota, else unknown; a
\* message with marks of both overload and quota is shown as overload.
C12_FixedPrecedence ==
    caught # NoError =>
        Categories(errorText) =
            { IF MessageOf(caught) = M_keymissing THEN "credential"
              ELSE IF OverloadMarked(MessageOf(caught)) THEN "overload"
              ELSE IF QuotaMarked(MessageOf(caught)) THEN "quota"
              ELSE "unknown" }

C12_Witness ==
    /\ caught # NoError
    /\ OverloadMarked(MessageOf(caught))
    /\ QuotaMarked(MessageOf(caught))
    /\ StartsWith(MessageOf(caught), S_429)
    /\ errorText = E_overload

\* C14: the quotes state changes only when a search starts, to the empty
\* list, and when every image promise of the search has settled, in whatever
\* order: then it holds the fetched quotes in their original order, each with
\* the image made for its own text.
C14_SetOnceInOrder ==
    [][quotes' # quotes =>
          \/ quotes' = <<>> /\ searchPc = "idle" /\ searchPc' = "quotes"
          \/ /\ searchPc = "images"
             /\ searchPc' = "idle"
             /\ {completed[k] : k \in 1..Len(completed)} = 1..Len(fetchedQuotes)
             /\ Len(quotes') = Len(fetchedQuotes)
             /\ \A i \in 1..Len(fetchedQuotes) :
                   quotes'[i] = Card(fetchedQuotes[i].id, fetchedQuotes[i].quote,
                                     ImageFor(fetchedQuotes[i].quote))]_vars

C14_Witness ==
    /\ searchPc = "idle"
    /\ completed = <<2, 1>>
    /\ Len(quotes) = 2
    /\ quotes[1].quote # quotes[2].quote
    /\ quotes[1].imageUrl = ImageFor(fetchedQuotes[1].quote)

Pending_save == \E k \in 1..Len(effects) : effects[k] = "save"

\* C15: whenever no save effect is pending, the stored item is the
\* serialization of the favorites state, so every change of favorites leaves
\* a save effect pending until it is written; and the item is only ever
\* written with the serialization of the favorites state.
C15_StoredFollowsFavorites ==
    /\ [](Pending_save \/ storage = Stringify(favorites))
    /\ [][storage' # storage => storage' = Stringify(favorites)]_vars

C15_Witness ==
    /\ Len(favorites) = 2
    /\ effects = <<>>
    /\ queued = <<>>
    /\ storage = Stringify(favorites)
    /\ ParseFavorites(storage) = Parsed(favorites)

\* C16: every error withRetry takes for a transient overload and rethrows
\* after its last retry is shown with the overload message, which brings the
\* retry button.
C16_TransientShownAsOverload ==
    (caught # NoError /\ TransientError(caught) /\ caught.attempt = DefaultRetries + 1) =>
        /\ errorText = E_overload
        /\ RetryButton(errorText)

\* The page was loaded with a well-formed list stored.
StoredWellFormed == stored0 # NoItem /\ ParseFavorites(stored0).ok

StartupFinished == effects = <<>> /\ queued = <<>>

\* C17: when the page was loaded with a well-formed list L stored, the
\* stored item differs from L at no time before the favorites state holds L,
\* and once the startup effects have finished the favorites state is L and
\* the stored item is L.
C17_StoredListSurvivesStartup ==
    StoredWellFormed =>
        /\ favorites # ParseFavorites(stored0).list => storage = stored0
        /\ StartupFinished =>
              /\ favorites = ParseFavorites(stored0).list
              /\ storage = stored0

\* C18: a search that is not in flight has isLoading false, and the daily
\* fetch once over has isDailyQuoteLoading false; every state with isLoading
\* true is followed by one with isLoading false, and likewise for
\* isDailyQuoteLoading.
C18_LoadingEnds ==
    /\ [](searchPc = "idle" => ~isLoading)
    /\ [](dailyPc = "done" => ~isDailyQuoteLoading)
    /\ (isLoading ~> ~isLoading)
    /\ (isDailyQuoteLoading ~> ~isDailyQuoteLoading)

C18_Witness ==
    /\ dailyPc = "done"
    /\ dailyQuote # NoCard
    /\ searchPc = "idle"
    /\ caught # NoError
    /\ errorText # NoText
    /\ ~isLoading
    /\ ~isDailyQuoteLoading

\* C19: at most one handleSearch call is in flight; while one is, isLoading
\* is true and the daily fetch is over; while the daily fetch is not over,
\* isDailyQuoteLoading is true; and a handleSearch call starts only in a
\* state where neither flag is true.
C19_OneSearchAtATime ==
    /\ [](inFlight <= 1)
    /\ [](inFlight = 1 => isLoading /\ dailyPc = "done")
    /\ [](dailyPc # "done" => isDailyQuoteLoading)
    /\ [][inFlight' > inFlight => ~isLoading /\ ~isDailyQuoteLoading]_vars

C19_Witness ==
    /\ inFlight = 1
    /\ searchPc = "images"
    /\ Len(completed) = 1
    /\ isLoading
    /\ dailyPc = "done"

\* C20: a handleSearch call with a term that is empty after trimming sets
\* the error to the validation message, starts no call of the service, and
\* leaves quotes, isLoading, currentView, dailyQuote and favorites as they
\* were.
C20_BlankSearchOnlySetsError ==
    [][(handleSearch /\ Trim(searchTerm) = <<>>) =>
          /\ errorText' = E_blank
          /\ searchPc' = searchPc
          /\ inFlight' = inFlight
          /\ UNCHANGED <<quotes, isLoading, currentView, dailyQuote, favorites>>]_vars

C20_Witness ==
    /\ searchTerm = <<" ">>
    /\ errorText = E_blank
    /\ Len(quotes) > 0
    /\ dailyQuote # NoCard
    /\ searchPc = "idle"
    /\ ~isLoading

\* C21: every step of handleSearch that sets an error (blank term, no quotes
\* found, or a failure of the service) leaves the search view showing that
\* error, not quote cards and not the quote of the day.
C21_FailedSearchShowsError ==
    [][((handleSearch \/ handleSearch_quotes) /\ errorText' # NoText) =>
          SearchViewShows(isLoading', quotes', errorText') = "error"]_vars

\* The same for the searches that reach the service.
C21_ServiceErrorShown ==
    [][(handleSearch_quotes /\ errorText' # NoText) =>
          SearchViewShows(isLoading', quotes', errorText') = "error"]_vars

\* The conversion of run r belongs to an earlier imageUrl, or to a card that
\* has left the page.
StaleRun(r) == r < Len(runs) \/ ~cardMounted

====
